---- MODULE Spec2Model ----
(***************************************************************************)
(* Model of the course-enrollment ETL: main_etl.py runs log_transformer.py *)
(* (parse the raw log into three dimension maps and one fact list, write   *)
(* four CSV files) and then clickhouse_loader.py (connect, load the four   *)
(* tables).                                                                *)
(*                                                                         *)
(* Text is modelled after tokenisation: a raw line is the list of its      *)
(* " | "-separated fields, a key=value block is the list of its            *)
(* ";"-separated sub-fields, and a sub-field is the list of its            *)
(* "="-separated parts (<<"promo_code", "">> is the text "promo_code=",    *)
(* <<"price100">> is a sub-field without "=").  A timestamp text is the    *)
(* record of its date digits, date/time separator, time digits and zone    *)
(* suffix.  A Python None is the empty tuple <<>> and a non-None value v   *)
(* of an optional is <<v>>.                                                *)
(***************************************************************************)
EXTENDS Integers, Sequences, FiniteSets, TLC

\* Longest raw log explored (number of lines of data/raw/enrollment_logs.txt).
MaxLines == 3

-----------------------------------------------------------------------------
(* Raw input lines                                                         *)

TsText(d, sep, t, tz) == [date |-> d, sep |-> sep, time |-> t, tz |-> tz]

UserBlock(id, name, city) ==
    << <<"user_id", id>>, <<"user_name", name>>, <<"user_city", city>> >>

CourseBlock(id, name, cat) ==
    << <<"course_id", id>>, <<"course_name", name>>, <<"category", cat>> >>

PriceBlock(price, promo) == << <<"price", price>>, <<"promo_code", promo>> >>

T1 == TsText(<<2024, 1, 15>>, "T", <<10, 30, 0>>, "Z")
T2 == TsText(<<2024, 2, 1>>, "T", <<11, 0, 5>>, "Z")

\* The raw lines a log is built from.  pad is the whitespace around the text.
Catalogue ==
    << \* 1, 2: an empty line and a whitespace-only line
       [pad |-> "", fields |-> <<>>],
       [pad |-> "   ", fields |-> <<>>],
       \* 3: user 1 = Alice/NYC, course C1, no promo
       [pad |-> "", fields |-> <<T1, "ENROLL", UserBlock("1", "Alice", "NYC"),
            CourseBlock("C1", "Python", "Programming"), PriceBlock("100", "NULL")>>],
       \* 4: the same user id ("01") and course id with other attributes, promo
       [pad |-> "", fields |-> <<T1, "ENROLL", UserBlock("01", "Alicia", "LA"),
            CourseBlock("C1", "Python II", "Data"), PriceBlock("100", "SAVE10")>>],
       \* 5: another user, course, timestamp; empty promo code ("promo_code=")
       [pad |-> " ", fields |-> <<T2, "ENROLL", UserBlock("2", "Bob", "SF"),
            CourseBlock("C2", "SQL", "Data"), PriceBlock("200", "")>>],
       \* 6: only four " | "-separated fields
       [pad |-> "", fields |-> <<T2, UserBlock("2", "Bob", "SF"),
            CourseBlock("C2", "SQL", "Data"), PriceBlock("200", "NULL")>>],
       \* 7: timestamp with a space instead of "T" and no "Z"
       [pad |-> "", fields |-> <<TsText(<<2024, 2, 1>>, " ", <<11, 0, 5>>, ""), "ENROLL",
            UserBlock("2", "Bob", "SF"), CourseBlock("C2", "SQL", "Data"),
            PriceBlock("200", "NULL")>>],
       \* 8: non-numeric user_id
       [pad |-> "", fields |-> <<T2, "ENROLL", UserBlock("abc", "Bob", "SF"),
            CourseBlock("C2", "SQL", "Data"), PriceBlock("200", "NULL")>>],
       \* 9: new user 3, course block lacking category
       [pad |-> "", fields |-> <<T2, "ENROLL", UserBlock("3", "Cy", "LA"),
            << <<"course_id", "C3">>, <<"course_name", "Go">> >>,
            PriceBlock("200", "NULL")>>],
       \* 10: price block with a sub-field without "="
       [pad |-> "", fields |-> <<T2, "ENROLL", UserBlock("3", "Cy", "LA"),
            CourseBlock("C3", "Go", "Programming"),
            << <<"price100">>, <<"promo_code", "NULL">> >> >>],
       \* 11: non-numeric price
       [pad |-> "", fields |-> <<T2, "ENROLL", UserBlock("3", "Cy", "LA"),
            CourseBlock("C3", "Go", "Programming"), PriceBlock("free", "NULL")>>],
       \* 12: user 2 again, course C1 with a course block lacking category
       [pad |-> "", fields |-> <<T2, "ENROLL", UserBlock("2", "Bob", "SF"),
            << <<"course_id", "C1">>, <<"course_name", "Python">> >>,
            PriceBlock("100", "NULL")>>]
    >>

LineIds == 1..Len(Catalogue)

RECURSIVE SeqsUpTo(_, _)
SeqsUpTo(S, n) ==
    IF n = 0 THEN {<<>>}
    ELSE LET shorter == SeqsUpTo(S, n - 1)
         IN  shorter \cup {Append(s, x) : s \in {q \in shorter : Len(q) = n - 1}, x \in S}

Logs == SeqsUpTo(LineIds, MaxLines)

-----------------------------------------------------------------------------
(* Python built-ins used by log_transformer.py                             *)

None == <<>>
Some(v) == <<v>>

\* Mutant of Strip: the line is used as read, whitespace included.
NoStrip(line) == line

\* line.strip(): the text without the whitespace around it.
Strip(line) == [pad |-> "", fields |-> line.fields]

\* "if not line": the text is the empty string.
IsBlank(line) == line.fields = <<>> /\ line.pad = ""

\* map(str.strip, line.split(" | ")): a text without " | " is one field.
Split(line) == IF line.fields = <<>> THEN <<line.pad>> ELSE line.fields

\* int(s): defined on decimal digit strings; int("01") is 1.
IntText == {"1", "01", "2", "3", "100", "200"}
int(s) ==
    CASE s \in {"1", "01"} -> 1
      [] s = "2" -> 2
      [] s = "3" -> 3
      [] s = "100" -> 100
      [] s = "200" -> 200

\* str(n), as csv.DictWriter renders an int cell.
str(n) ==
    CASE n = 0 -> "0" [] n = 1 -> "1" [] n = 2 -> "2" [] n = 3 -> "3"
      [] n = 5 -> "5" [] n = 10 -> "10" [] n = 11 -> "11" [] n = 15 -> "15"
      [] n = 30 -> "30" [] n = 100 -> "100" [] n = 200 -> "200"
      [] n = 2024 -> "2024"

\* datetime.strptime(s, "%Y-%m-%dT%H:%M:%SZ") succeeds.
StrptimeOk(s) ==
    /\ s.sep = "T" /\ s.tz = "Z"
    /\ s.date[2] \in 1..12 /\ s.date[3] \in 1..31
    /\ s.time[1] \in 0..23 /\ s.time[2] \in 0..59 /\ s.time[3] \in 0..59

strptime(s) ==
    [year |-> s.date[1], month |-> s.date[2], day |-> s.date[3],
     hour |-> s.time[1], minute |-> s.time[2], second |-> s.time[3]]

\* datetime.isoformat(sep): no zone suffix, the given separator.
isoformat(dt, sep) ==
    [date |-> <<dt.year, dt.month, dt.day>>, sep |-> sep,
     time |-> <<dt.hour, dt.minute, dt.second>>]

\* dict(field.split("=") for field in block.split(";")) succeeds: every
\* sub-field splits into exactly two parts.
DictOk(block) == \A i \in 1..Len(block) : Len(block[i]) = 2

\* The dict itself: a later pair with the same key replaces an earlier one.
DictOf(block) ==
    [k \in {block[i][1] : i \in 1..Len(block)} |->
        LET last == CHOOSE i \in 1..Len(block) :
                        /\ block[i][1] = k
                        /\ \A j \in (i + 1)..Len(block) : block[j][1] # k
        IN  block[last][2]]

HasKeys(d, ks) == ks \subseteq DOMAIN d

\* Mutant of Contains: the presence check is lost, every key looks new.
ContainsNever(d, k) == FALSE

\* Insertion-ordered dict: a sequence of [k, v] entries with distinct keys.
Contains(d, k) == \E i \in 1..Len(d) : d[i].k = k

\* Mutant of DictSet: an assignment to a new key is lost.
DictSetExistingOnly(d, k, v) ==
    [i \in 1..Len(d) |-> IF d[i].k = k THEN [k |-> k, v |-> v] ELSE d[i]]

\* d[k] = v
DictSet(d, k, v) ==
    IF \E i \in 1..Len(d) : d[i].k = k
    THEN [i \in 1..Len(d) |-> IF d[i].k = k THEN [k |-> k, v |-> v] ELSE d[i]]
    ELSE Append(d, [k |-> k, v |-> v])

\* d[k]
Lookup(d, k) == d[CHOOSE i \in 1..Len(d) : d[i].k = k].v

\* d.values()
Values(d) == [i \in 1..Len(d) |-> d[i].v]
Keys(d) == {d[i].k : i \in 1..Len(d)}

-----------------------------------------------------------------------------
(* State                                                                   *)

VARIABLES
    log,               \* the raw log: a sequence of Catalogue indices
    pc,                \* position in main_etl.py and the module it is importing
    lineno,            \* index of the line the "for line in f" loop is at
    dim_users,         \* log_transformer.dim_users
    dim_courses,       \* log_transformer.dim_courses
    dim_times,         \* log_transformer.dim_times
    fact_enrollments,  \* log_transformer.fact_enrollments
    widx,              \* which of the four write_csv calls is next
    files,             \* data/processed/<table>.csv
    error,             \* the exception main_etl.py caught, "" if none
    stdout,            \* what has been printed
    exit_code,         \* None while running, Some(code) once the process ended
    client,            \* clickhouse_loader.client is connected
    tidx,              \* which of the four load calls is next
    attempts,          \* tables load_dataframe_to_clickhouse was called for
    store              \* rows inserted into each destination table

dims == <<dim_users, dim_courses, dim_times, fact_enrollments>>
loader == <<client, tidx, attempts, store>>
vars == <<log, pc, lineno, dim_users, dim_courses, dim_times, fact_enrollments,
          widx, files, error, stdout, exit_code, client, tidx, attempts, store>>

\* The order of the write_csv calls and of the load calls.
Tables == <<"dim_user", "dim_course", "dim_time", "fact_enrollment">>
TableSet == {Tables[i] : i \in 1..Len(Tables)}

\* 32: line = line.strip()
CurLine == Strip(Catalogue[log[lineno]])
timestamp_str == Split(CurLine)[1]
user_str == Split(CurLine)[3]
course_str == Split(CurLine)[4]
price_str == Split(CurLine)[5]
time_id == strptime(timestamp_str)
user_id == int(DictOf(user_str)["user_id"])
course_id == DictOf(course_str)["course_id"]

Init ==
    /\ log \in Logs
    /\ pc = "main_transform"
    /\ lineno = 1
    /\ dim_users = <<>> /\ dim_courses = <<>> /\ dim_times = <<>>
    /\ fact_enrollments = <<>>
    /\ widx = 1
    /\ \E prior \in {"absent", "stale"} :
          files = [t \in TableSet |->
                     [state |-> prior,
                      rows |-> IF prior = "stale" THEN << <<"stale">> >> ELSE <<>>]]
    /\ error = ""
    /\ stdout = <<>>
    /\ exit_code = None
    /\ client = FALSE
    /\ tidx = 1
    /\ attempts = <<>>
    /\ store = [t \in TableSet |-> <<>>]

-----------------------------------------------------------------------------
(* log_transformer.py                                                      *)

\* An exception leaves the module: main_etl.py's "except Exception" gets it.
Raise(exc) ==
    /\ pc' = "main_transform_except"
    /\ error' = exc
    /\ lineno' = lineno

\* main_etl.py 10-12: announce step 1 and start importing log_transformer.
StartTransform ==
    /\ pc = "main_transform"
    /\ stdout' = Append(stdout, <<"[1/2] Transforming logs", "">>)
    /\ pc' = "lt_loop"
    /\ UNCHANGED <<log, lineno, dims, widx, files, error, exit_code, loader>>

\* 31-34: a blank line is skipped.
SkipBlankLine ==
    /\ pc = "lt_loop"
    /\ lineno <= Len(log)
    /\ IsBlank(CurLine)
    /\ lineno' = lineno + 1
    /\ UNCHANGED <<log, pc, dims, widx, files, error, stdout, exit_code, loader>>

\* 37: split the line into exactly five fields.
SplitLine ==
    /\ pc = "lt_loop"
    /\ lineno <= Len(log)
    /\ ~IsBlank(CurLine)
    /\ IF Len(Split(CurLine)) # 5
       THEN Raise("ValueError")
       ELSE pc' = "lt_time" /\ UNCHANGED <<error, lineno>>
    /\ UNCHANGED <<log, dims, widx, files, stdout, exit_code, loader>>

\* 43-50: the dim_times row of a datetime.
TimeRow(dt) ==
    [time_id |-> dt, date |-> <<dt.year, dt.month, dt.day>>, year |-> dt.year,
     month |-> dt.month, day |-> dt.day, hour |-> dt.hour]

\* 56-60: the dim_users row of a parsed user block.
UserRow(user_fields) ==
    [user_id |-> int(user_fields["user_id"]),
     user_name |-> user_fields["user_name"],
     user_city |-> user_fields["user_city"]]

\* 66-70: the dim_courses row of a parsed course block.
CourseRow(course_fields) ==
    [course_id |-> course_fields["course_id"],
     course_name |-> course_fields["course_name"],
     category |-> course_fields["category"]]

\* "if k not in d: d[k] = v"
PutIfAbsent(d, k, v) == IF Contains(d, k) THEN d ELSE DictSet(d, k, v)

\* 40-50: time dimension.
ExtractTime ==
    /\ pc = "lt_time"
    /\ IF ~StrptimeOk(timestamp_str)
       THEN Raise("ValueError") /\ UNCHANGED dim_times
       ELSE /\ LET time_key == isoformat(time_id, "T")
               IN  dim_times' = PutIfAbsent(dim_times, time_key, TimeRow(time_id))
            /\ pc' = "lt_user"
            /\ UNCHANGED <<error, lineno>>
    /\ UNCHANGED <<log, dim_users, dim_courses, fact_enrollments, widx, files,
                   stdout, exit_code, loader>>

\* 53-60: user dimension.  user_name and user_city are read only when the
\* user id is new.
ExtractUser ==
    /\ pc = "lt_user"
    /\ IF ~DictOk(user_str) THEN Raise("ValueError") /\ UNCHANGED dim_users
       ELSE IF ~HasKeys(DictOf(user_str), {"user_id"})
            THEN Raise("KeyError") /\ UNCHANGED dim_users
       ELSE IF DictOf(user_str)["user_id"] \notin IntText
            THEN Raise("ValueError") /\ UNCHANGED dim_users
       ELSE IF Contains(dim_users, user_id)
            THEN pc' = "lt_course" /\ UNCHANGED <<dim_users, error, lineno>>
       ELSE IF ~HasKeys(DictOf(user_str), {"user_name", "user_city"})
            THEN Raise("KeyError") /\ UNCHANGED dim_users
       ELSE /\ dim_users' = PutIfAbsent(dim_users, user_id, UserRow(DictOf(user_str)))
            /\ pc' = "lt_course"
            /\ UNCHANGED <<error, lineno>>
    /\ UNCHANGED <<log, dim_courses, dim_times, fact_enrollments, widx, files,
                   stdout, exit_code, loader>>

\* 63-70: course dimension.  course_name and category are read only when the
\* course id is new.
ExtractCourse ==
    /\ pc = "lt_course"
    /\ IF ~DictOk(course_str) THEN Raise("ValueError") /\ UNCHANGED dim_courses
       ELSE IF ~HasKeys(DictOf(course_str), {"course_id"})
            THEN Raise("KeyError") /\ UNCHANGED dim_courses
       ELSE IF Contains(dim_courses, course_id)
            THEN pc' = "lt_fact" /\ UNCHANGED <<dim_courses, error, lineno>>
       ELSE IF ~HasKeys(DictOf(course_str), {"course_name", "category"})
            THEN Raise("KeyError") /\ UNCHANGED dim_courses
       ELSE /\ dim_courses' =
                 PutIfAbsent(dim_courses, course_id, CourseRow(DictOf(course_str)))
            /\ pc' = "lt_fact"
            /\ UNCHANGED <<error, lineno>>
    /\ UNCHANGED <<log, dim_users, dim_times, fact_enrollments, widx, files,
                   stdout, exit_code, loader>>

\* 76-77: the literal "NULL" becomes None.
NormalizePromo(promo_code) == IF promo_code = "NULL" THEN None ELSE Some(promo_code)

\* Mutant of FinalPrice: final_price is set to price whatever the promo code.
FinalPriceAlways(price, promo_code) == Some(price)

\* 79: final_price = price if promo_code is None else None
FinalPrice(price, promo_code) == IF promo_code = None THEN Some(price) ELSE None

\* Mutant of FactAppend: a row equal to an earlier one is dropped.
FactAppendDedup(facts, row) ==
    IF \E i \in 1..Len(facts) : facts[i] = row THEN facts ELSE Append(facts, row)

\* 81: fact_enrollments.append(row)
FactAppend(facts, row) == Append(facts, row)

\* 73-88: the fact row of a line whose price block parsed.
FactRow(line) ==
    LET price_parts == DictOf(Split(line)[5])
        price == int(price_parts["price"])
        promo_code == NormalizePromo(price_parts["promo_code"])
    IN  [time_id |-> isoformat(strptime(Split(line)[1]), " "),
         user_id |-> int(DictOf(Split(line)[3])["user_id"]),
         course_id |-> DictOf(Split(line)[4])["course_id"],
         price |-> price,
         promo_code |-> promo_code,
         final_price |-> FinalPrice(price, promo_code)]

\* 73-88: fact table; then the loop goes to the next line.
ExtractFact ==
    /\ pc = "lt_fact"
    /\ IF ~DictOk(price_str) THEN Raise("ValueError") /\ UNCHANGED fact_enrollments
       ELSE IF ~HasKeys(DictOf(price_str), {"price"})
            THEN Raise("KeyError") /\ UNCHANGED fact_enrollments
       ELSE IF DictOf(price_str)["price"] \notin IntText
            THEN Raise("ValueError") /\ UNCHANGED fact_enrollments
       ELSE IF ~HasKeys(DictOf(price_str), {"promo_code"})
            THEN Raise("KeyError") /\ UNCHANGED fact_enrollments
       ELSE /\ fact_enrollments' = FactAppend(fact_enrollments, FactRow(CurLine))
            /\ pc' = "lt_loop"
            /\ lineno' = lineno + 1
            /\ UNCHANGED error
    /\ UNCHANGED <<log, dim_users, dim_courses, dim_times, widx, files,
                   stdout, exit_code, loader>>

\* 30: the file is exhausted; the with block ends.
EndOfLog ==
    /\ pc = "lt_loop"
    /\ lineno > Len(log)
    /\ pc' = "lt_write"
    /\ UNCHANGED <<log, lineno, dims, widx, files, error, stdout, exit_code, loader>>

\* csv.DictWriter cells, in fieldnames order: str() of each value, None as "".
UserCsv(r) == <<str(r.user_id), r.user_name, r.user_city>>
CourseCsv(r) == <<r.course_id, r.course_name, r.category>>
TimeCsv(r) ==
    <<isoformat(r.time_id, " "), r.date, str(r.year), str(r.month), str(r.day),
      str(r.hour)>>
FactCsv(r) ==
    <<r.time_id, str(r.user_id), r.course_id, str(r.price),
      IF r.promo_code = None THEN "" ELSE r.promo_code[1],
      IF r.final_price = None THEN "" ELSE str(r.final_price[1])>>

\* 97-102: the rows each write_csv call is given.
CsvRows(t) ==
    CASE t = "dim_user" -> [i \in 1..Len(dim_users) |-> UserCsv(Values(dim_users)[i])]
      [] t = "dim_course" ->
            [i \in 1..Len(dim_courses) |-> CourseCsv(Values(dim_courses)[i])]
      [] t = "dim_time" -> [i \in 1..Len(dim_times) |-> TimeCsv(Values(dim_times)[i])]
      [] t = "fact_enrollment" ->
            [i \in 1..Len(fact_enrollments) |-> FactCsv(fact_enrollments[i])]

\* 91-102: one write_csv call.  open(..., "w") may fail, leaving the file as
\* it was; a write may fail after the file was truncated.
WriteCsv ==
    /\ pc = "lt_write"
    /\ widx <= Len(Tables)
    /\ LET t == Tables[widx]
       IN  \E io \in {"ok", "open_error", "write_error"} :
             CASE io = "ok" ->
                    /\ files' = [files EXCEPT ![t] = [state |-> "written", rows |-> CsvRows(t)]]
                    /\ widx' = widx + 1
                    /\ UNCHANGED <<pc, error>>
               [] io = "open_error" ->
                    /\ pc' = "main_transform_except" /\ error' = "OSError"
                    /\ UNCHANGED <<files, widx>>
               [] io = "write_error" ->
                    /\ files' = [files EXCEPT ![t] = [state |-> "truncated", rows |-> <<>>]]
                    /\ pc' = "main_transform_except" /\ error' = "OSError"
                    /\ UNCHANGED widx
    /\ UNCHANGED <<log, lineno, dims, stdout, exit_code, loader>>

-----------------------------------------------------------------------------
(* main_etl.py and clickhouse_loader.py                                    *)

\* Mutant of TransformFailed: the failure is printed but sys.exit(1) is
\* missing, so the script goes on to the load step.
TransformFailedNoExit ==
    /\ pc = "main_transform_except"
    /\ stdout' = Append(stdout, <<"Transformation failed:", error>>)
    /\ pc' = "cl_connect"
    /\ UNCHANGED <<log, lineno, dims, widx, files, error, exit_code, loader>>

\* main_etl.py 14-16: report the failure and exit 1.
TransformFailed ==
    /\ pc = "main_transform_except"
    /\ stdout' = Append(stdout, <<"Transformation failed:", error>>)
    /\ exit_code' = Some(1)
    /\ pc' = "exit"
    /\ UNCHANGED <<log, lineno, dims, widx, files, error, loader>>

\* main_etl.py 13, 19-21: the import returned; announce step 2 and start
\* importing clickhouse_loader.
TransformCompleted ==
    /\ pc = "lt_write"
    /\ widx > Len(Tables)
    /\ stdout' = stdout \o << <<"Transformation completed.", "">>,
                              <<"[2/2] Loading CSVs", "">> >>
    /\ pc' = "cl_connect"
    /\ UNCHANGED <<log, lineno, dims, widx, files, error, exit_code, loader>>

\* clickhouse_loader.py 13-30: read the configuration and connect; either
\* may raise.
Connect ==
    /\ pc = "cl_connect"
    /\ \E ok \in BOOLEAN :
         IF ok
         THEN client' = TRUE /\ pc' = "cl_load" /\ UNCHANGED error
         ELSE pc' = "main_load_except" /\ error' = "ConnectError" /\ UNCHANGED client
    /\ UNCHANGED <<log, lineno, dims, widx, files, stdout, exit_code, tidx, attempts, store>>

\* Mutant of LoadTable: no try/except, so an exception of the read or the
\* insert leaves the module and reaches main_etl.py.
LoadTableAbort ==
    /\ pc = "cl_load"
    /\ tidx <= Len(Tables)
    /\ LET t == Tables[tidx]
       IN  /\ attempts' = Append(attempts, t)
           /\ \E io \in {"ok", "read_error", "insert_error"} :
                IF io = "read_error" \/ files[t].state = "absent"
                THEN /\ pc' = "main_load_except" /\ error' = "ReadError"
                     /\ UNCHANGED <<stdout, store>>
                ELSE IF files[t].rows = <<>>
                THEN /\ stdout' = Append(stdout, <<"is empty, skipping...", t>>)
                     /\ UNCHANGED <<store, pc, error>>
                ELSE IF io = "insert_error"
                THEN /\ stdout' = Append(stdout, <<"Loading", t>>)
                     /\ pc' = "main_load_except" /\ error' = "InsertError"
                     /\ UNCHANGED store
                ELSE /\ stdout' = stdout \o << <<"Loading", t>>, <<"Successfully loaded", t>> >>
                     /\ store' = [store EXCEPT ![t] = store[t] \o files[t].rows]
                     /\ UNCHANGED <<pc, error>>
    /\ tidx' = tidx + 1
    /\ UNCHANGED <<log, lineno, dims, widx, files, exit_code, client>>

\* clickhouse_loader.py 32-51, called at 54-57: load one table.  Every
\* exception of the read or the insert is caught and printed.
LoadTable ==
    /\ pc = "cl_load"
    /\ tidx <= Len(Tables)
    /\ LET t == Tables[tidx]
       IN  /\ attempts' = Append(attempts, t)
           /\ \E io \in {"ok", "read_error", "insert_error"} :
                IF io = "read_error" \/ files[t].state = "absent"
                THEN /\ stdout' = Append(stdout, <<"Failed to load", t>>)
                     /\ UNCHANGED store
                ELSE IF files[t].rows = <<>>
                THEN /\ stdout' = Append(stdout, <<"is empty, skipping...", t>>)
                     /\ UNCHANGED store
                ELSE IF io = "insert_error"
                THEN /\ stdout' = stdout \o << <<"Loading", t>>, <<"Failed to load", t>> >>
                     /\ UNCHANGED store
                ELSE /\ stdout' = stdout \o << <<"Loading", t>>, <<"Successfully loaded", t>> >>
                     /\ store' = [store EXCEPT ![t] = store[t] \o files[t].rows]
    /\ tidx' = tidx + 1
    /\ UNCHANGED <<log, pc, lineno, dims, widx, files, error, exit_code, client>>

\* main_etl.py 22: the import returned; the script ends with exit code 0.
LoadingCompleted ==
    /\ pc = "cl_load"
    /\ tidx > Len(Tables)
    /\ stdout' = Append(stdout, <<"Loading completed.", "">>)
    /\ exit_code' = Some(0)
    /\ pc' = "exit"
    /\ UNCHANGED <<log, lineno, dims, widx, files, error, loader>>

\* main_etl.py 23-25: report the failure and exit 1.
LoadFailed ==
    /\ pc = "main_load_except"
    /\ stdout' = Append(stdout, <<"Loading failed:", error>>)
    /\ exit_code' = Some(1)
    /\ pc' = "exit"
    /\ UNCHANGED <<log, lineno, dims, widx, files, error, loader>>

Next ==
    \/ StartTransform
    \/ SkipBlankLine
    \/ SplitLine
    \/ ExtractTime
    \/ ExtractUser
    \/ ExtractCourse
    \/ ExtractFact
    \/ EndOfLog
    \/ WriteCsv
    \/ TransformFailed
    \/ TransformCompleted
    \/ Connect
    \/ LoadTable
    \/ LoadingCompleted
    \/ LoadFailed

Spec == Init /\ [][Next]_vars

TypeOK ==
    /\ pc \in {"main_transform", "lt_loop", "lt_time", "lt_user", "lt_course", "lt_fact",
               "lt_write", "main_transform_except", "cl_connect", "cl_load",
               "main_load_except", "exit"}
    /\ lineno \in 1..(Len(log) + 1)
    /\ exit_code \in {None, Some(0), Some(1)}

-----------------------------------------------------------------------------
(* What the raw log says, read off the text without running the program    *)

Raw(j) == Catalogue[log[j]]

\* The raw line is empty or consists of whitespace only.
WhitespaceOnly(line) == line.fields = <<>>

RECURSIVE NonBlank(_)
\* The indices of the non-blank lines among the first n lines, in order.
NonBlank(n) ==
    IF n = 0 THEN <<>>
    ELSE IF WhitespaceOnly(Raw(n)) THEN NonBlank(n - 1)
         ELSE Append(NonBlank(n - 1), n)

\* The last line the loop has started on.
Reached == IF lineno > Len(log) THEN Len(log) ELSE lineno

\* A five-field line whose block number b splits into key=value pairs that
\* include key.
HasField(j, b, key) ==
    /\ Len(Raw(j).fields) = 5
    /\ \A i \in 1..Len(Raw(j).fields[b]) : Len(Raw(j).fields[b][i]) = 2
    /\ \E i \in 1..Len(Raw(j).fields[b]) : Raw(j).fields[b][i][1] = key

RawField(j, b, key) ==
    LET blk == Raw(j).fields[b]
    IN  blk[CHOOSE i \in 1..Len(blk) : blk[i][1] = key][2]

\* The decimal value of a digit string.
Decimal(s) ==
    IF s \in {"1", "01"} THEN 1 ELSE IF s = "2" THEN 2 ELSE IF s = "3" THEN 3
    ELSE IF s = "100" THEN 100 ELSE 200

IsDecimal(s) == s \in {"1", "01", "2", "3", "100", "200"}

RefersUser(j, k) ==
    /\ HasField(j, 3, "user_id")
    /\ IsDecimal(RawField(j, 3, "user_id"))
    /\ Decimal(RawField(j, 3, "user_id")) = k

RefersCourse(j, k) == HasField(j, 4, "course_id") /\ RawField(j, 4, "course_id") = k

RawTimeKey(j) ==
    [date |-> Raw(j).fields[1].date, sep |-> "T", time |-> Raw(j).fields[1].time]

RefersTime(j, k) == Len(Raw(j).fields) = 5 /\ RawTimeKey(j) = k

Min(S) == CHOOSE x \in S : \A y \in S : x <= y

FirstUserLine(k) == Min({j \in 1..Reached : RefersUser(j, k)})
FirstCourseLine(k) == Min({j \in 1..Reached : RefersCourse(j, k)})
FirstTimeLine(k) == Min({j \in 1..Reached : RefersTime(j, k)})

\* All four write_csv calls returned.
PassSucceeded == widx > Len(Tables)

\* The exceptions the parsing statements raise.
ParseErrors == {"ValueError", "KeyError"}

Printed(msg) == \E i \in 1..Len(stdout) : stdout[i] = msg

-----------------------------------------------------------------------------
(* C1                                                                      *)

\* C1: first occurrence wins.  In every state, the dim_users row of a user
\* id holds the user_name and user_city of the first line of the log that
\* referred to that id, and the dim_courses row of a course id holds the
\* course_name and category of the first line that referred to it, whatever
\* later lines carrying the same id say.
C1_FirstOccurrenceWins ==
    /\ \A i \in 1..Len(dim_users) :
         LET k == dim_users[i].k
             j == FirstUserLine(k)
         IN  dim_users[i].v = [user_id |-> k,
                               user_name |-> RawField(j, 3, "user_name"),
                               user_city |-> RawField(j, 3, "user_city")]
    /\ \A i \in 1..Len(dim_courses) :
         LET k == dim_courses[i].k
             j == FirstCourseLine(k)
         IN  dim_courses[i].v = [course_id |-> k,
                                 course_name |-> RawField(j, 4, "course_name"),
                                 category |-> RawField(j, 4, "category")]

\* A later line with the same user id and course id but other attribute
\* values has been processed, and the pass has ended.
C1_Witness ==
    /\ PassSucceeded
    /\ \E a \in 1..Len(log), b \in 1..Len(log) :
         /\ a < b
         /\ RefersUser(a, 1) /\ RefersUser(b, 1)
         /\ RawField(a, 3, "user_name") = "Alice"
         /\ RawField(b, 3, "user_name") = "Alicia"
         /\ RawField(a, 4, "course_name") # RawField(b, 4, "course_name")
    /\ files["dim_user"].rows = << <<"1", "Alice", "NYC">> >>

-----------------------------------------------------------------------------
(* C2, C9                                                                  *)

\* The raw line fact row i was derived from.
LineOfFact(i) == NonBlank(Len(log))[i]

\* C2: promo/final_price rule.  For every fact row: a raw promo_code of NULL
\* gives promo_code None and final_price = price; a raw promo code such as
\* SAVE10 is kept and gives final_price None; promo_code is never the string
\* "NULL"; final_price is None or equal to price, and it is None exactly
\* when promo_code is not None.
C2_PromoRule ==
    \A i \in 1..Len(fact_enrollments) :
        LET row == fact_enrollments[i]
            raw == RawField(LineOfFact(i), 5, "promo_code")
        IN  /\ row.price = Decimal(RawField(LineOfFact(i), 5, "price"))
            /\ raw = "NULL" => row.promo_code = None /\ row.final_price = Some(row.price)
            /\ raw \notin {"NULL", ""} =>
                   row.promo_code = Some(raw) /\ row.final_price = None
            /\ row.promo_code # Some("NULL")
            /\ row.final_price \in {None, Some(row.price)}
            /\ row.final_price = None <=> row.promo_code # None

\* Fact rows of both kinds exist: one from promo_code=NULL, one from SAVE10.
C2_Witness ==
    \E i \in 1..Len(fact_enrollments), j \in 1..Len(fact_enrollments) :
        /\ RawField(LineOfFact(i), 5, "promo_code") = "NULL"
        /\ fact_enrollments[i].final_price = Some(100)
        /\ RawField(LineOfFact(j), 5, "promo_code") = "SAVE10"
        /\ fact_enrollments[j].promo_code = Some("SAVE10")

\* C9: an empty promo code ("promo_code=") is treated like NULL: the fact
\* row has promo_code None and final_price = price.
C9_EmptyPromoIsAbsent ==
    \A i \in 1..Len(fact_enrollments) :
        RawField(LineOfFact(i), 5, "promo_code") = "" =>
            /\ fact_enrollments[i].promo_code = None
            /\ fact_enrollments[i].final_price = Some(fact_enrollments[i].price)

-----------------------------------------------------------------------------
(* C3                                                                      *)

\* C3: referential integrity.  In every state every fact row's user_id is a
\* key of dim_users and its course_id a key of dim_courses; and once
\* fact_enrollment.csv is written, dim_user.csv and dim_course.csv are
\* written and hold a row for every user_id and course_id cell of it.
C3_ReferentialIntegrity ==
    /\ \A i \in 1..Len(fact_enrollments) :
         /\ fact_enrollments[i].user_id \in Keys(dim_users)
         /\ fact_enrollments[i].course_id \in Keys(dim_courses)
    /\ files["fact_enrollment"].state = "written" =>
         /\ files["dim_user"].state = "written"
         /\ files["dim_course"].state = "written"
         /\ \A i \in 1..Len(files["fact_enrollment"].rows) :
              LET r == files["fact_enrollment"].rows[i]
              IN  /\ \E u \in 1..Len(files["dim_user"].rows) :
                        files["dim_user"].rows[u][1] = r[2]
                  /\ \E c \in 1..Len(files["dim_course"].rows) :
                        files["dim_course"].rows[c][1] = r[3]

\* fact_enrollment.csv is written with rows of two users and two courses.
C3_Witness ==
    /\ files["fact_enrollment"].state = "written"
    /\ \E i \in 1..Len(fact_enrollments), j \in 1..Len(fact_enrollments) :
         /\ fact_enrollments[i].user_id # fact_enrollments[j].user_id
         /\ fact_enrollments[i].course_id # fact_enrollments[j].course_id

-----------------------------------------------------------------------------
(* C4                                                                      *)

\* The keys of an ordered map are distinct and in order of the first line
\* that referred to them.
FirstSeenOrder(d, First(_)) ==
    \A a \in 1..Len(d), b \in 1..Len(d) : a < b => First(d[a].k) < First(d[b].k)

\* C4: after a successful full pass, fact_enrollment has one row per
\* non-blank line, in line order, undeduplicated; dim_user, dim_course and
\* dim_time have one row per distinct user_id, course_id and timestamp of
\* the log, in order of first occurrence; the files hold these rows in the
\* same order.
C4_CardinalityAndOrder ==
    PassSucceeded =>
        LET nb == NonBlank(Len(log))
            nbs == {nb[i] : i \in 1..Len(nb)}
            users == {Decimal(RawField(j, 3, "user_id")) : j \in nbs}
            courses == {RawField(j, 4, "course_id") : j \in nbs}
            times == {RawTimeKey(j) : j \in nbs}
        IN  /\ Len(fact_enrollments) = Len(nb)
            /\ Len(files["fact_enrollment"].rows) = Len(nb)
            /\ \A i \in 1..Len(nb) :
                 /\ fact_enrollments[i].user_id = Decimal(RawField(nb[i], 3, "user_id"))
                 /\ fact_enrollments[i].course_id = RawField(nb[i], 4, "course_id")
                 /\ fact_enrollments[i].time_id = [RawTimeKey(nb[i]) EXCEPT !.sep = " "]
                 /\ files["fact_enrollment"].rows[i][1] = fact_enrollments[i].time_id
                 /\ files["fact_enrollment"].rows[i][3] = fact_enrollments[i].course_id
            /\ Keys(dim_users) = users /\ Len(dim_users) = Cardinality(users)
            /\ Keys(dim_courses) = courses /\ Len(dim_courses) = Cardinality(courses)
            /\ Keys(dim_times) = times /\ Len(dim_times) = Cardinality(times)
            /\ FirstSeenOrder(dim_users, FirstUserLine)
            /\ FirstSeenOrder(dim_courses, FirstCourseLine)
            /\ FirstSeenOrder(dim_times, FirstTimeLine)
            /\ Len(files["dim_user"].rows) = Len(dim_users)
            /\ Len(files["dim_course"].rows) = Len(dim_courses)
            /\ Len(files["dim_time"].rows) = Len(dim_times)
            /\ \A i \in 1..Len(dim_users) :
                 Decimal(files["dim_user"].rows[i][1]) = dim_users[i].k
            /\ \A i \in 1..Len(dim_courses) :
                 files["dim_course"].rows[i][1] = dim_courses[i].k
            /\ \A i \in 1..Len(dim_times) :
                 files["dim_time"].rows[i][1] = [dim_times[i].k EXCEPT !.sep = " "]

\* Three lines, two of them identical, two users, two courses, one repeated
\* timestamp: three fact rows, two rows in each dimension.
C4_Witness ==
    /\ PassSucceeded
    /\ Len(files["fact_enrollment"].rows) = 3
    /\ files["fact_enrollment"].rows[1] = files["fact_enrollment"].rows[2]
    /\ Len(files["dim_user"].rows) = 2
    /\ Len(files["dim_course"].rows) = 2
    /\ Len(files["dim_time"].rows) = 2

-----------------------------------------------------------------------------
(* C5                                                                      *)

RawTimestampOk(ts) ==
    /\ ts.sep = "T" /\ ts.tz = "Z"
    /\ ts.date[2] \in 1..12 /\ ts.date[3] \in 1..31
    /\ ts.time[1] \in 0..23 /\ ts.time[2] \in 0..59 /\ ts.time[3] \in 0..59

\* The non-blank raw line j breaks the parsing contract: wrong number of
\* fields, bad timestamp, a sub-field without exactly one "=", a required
\* key missing from its block, or a non-numeric user_id or price.
ParseDefect(j) ==
    /\ ~WhitespaceOnly(Raw(j))
    /\ ~ /\ Len(Raw(j).fields) = 5
         /\ RawTimestampOk(Raw(j).fields[1])
         /\ \A key \in {"user_id", "user_name", "user_city"} : HasField(j, 3, key)
         /\ \A key \in {"course_id", "course_name", "category"} : HasField(j, 4, key)
         /\ \A key \in {"price", "promo_code"} : HasField(j, 5, key)
         /\ IsDecimal(RawField(j, 3, "user_id"))
         /\ IsDecimal(RawField(j, 5, "price"))

\* C5: a parse failure on any line aborts the whole transform: no later line
\* is processed and none of the four output files is written or modified.
C5_ParseFailureAborts ==
    \A j \in 1..Len(log) :
        ParseDefect(j) =>
            /\ lineno <= j
            /\ \A t \in TableSet : files[t].state \notin {"written", "truncated"}
            /\ ~Printed(<<"Transformation completed.", "">>)

-----------------------------------------------------------------------------
(* C6, C7, C8                                                              *)

TransformErrors == ParseErrors \cup {"OSError"}

\* C6: the exit code is non-zero whenever the transform step failed or the
\* load step failed, the load step failing when the connection could not be
\* set up or when the load of one or more of the four tables failed.
C6_NonZeroExitOnFailure ==
    exit_code # None =>
        ((error # "" \/ \E t \in TableSet : Printed(<<"Failed to load", t>>))
            => exit_code = Some(1))

\* C7: the load step starts only after the transform step completed; when
\* the transform step raised, the failure is reported, the process exits
\* with code 1, no connection is opened and no table load is attempted.
C7_LoadOnlyAfterTransform ==
    /\ (\/ client
        \/ attempts # <<>>
        \/ pc \in {"cl_connect", "cl_load", "main_load_except"}
        \/ Printed(<<"[2/2] Loading CSVs", "">>))
       => /\ PassSucceeded
          /\ error \notin TransformErrors
          /\ Printed(<<"Transformation completed.", "">>)
    /\ error \in TransformErrors =>
          /\ ~client
          /\ attempts = <<>>
          /\ \A t \in TableSet : store[t] = <<>>
          /\ pc \in {"main_transform_except", "exit"}
          /\ pc = "exit" =>
                /\ exit_code = Some(1)
                /\ Printed(<<"Transformation failed:", error>>)

\* The transform raised on a line after a dimension row was inserted, and
\* the process has exited.
C7_Witness ==
    /\ pc = "exit"
    /\ error = "KeyError"
    /\ exit_code = Some(1)
    /\ Len(dim_users) > 0

\* How many times the outcome of loading table t was reported.
Reports(t) ==
    Cardinality({i \in 1..Len(stdout) :
        stdout[i] \in {<<"Failed to load", t>>, <<"is empty, skipping...", t>>,
                       <<"Successfully loaded", t>>}})

\* C8: once connected, the loader attempts dim_user, dim_course, dim_time,
\* fact_enrollment in this order, each exactly once, whatever subset of them
\* fails or is skipped, and reports each outcome once; no failure of a table
\* load ends the loader early.
C8_PerTableIsolation ==
    /\ attempts = SubSeq(Tables, 1, Len(attempts))
    /\ \A t \in TableSet :
         Reports(t) = IF \E i \in 1..Len(attempts) : attempts[i] = t THEN 1 ELSE 0
    /\ client =>
         /\ pc \in {"cl_load", "exit"}
         /\ pc = "cl_load" => Len(attempts) = tidx - 1
         /\ pc = "exit" => attempts = Tables

\* The first table failed, a later one was loaded, and the loader is done.
C8_Witness ==
    /\ pc = "exit"
    /\ Printed(<<"Failed to load", "dim_user">>)
    /\ Printed(<<"Failed to load", "dim_time">>)
    /\ Printed(<<"Successfully loaded", "fact_enrollment">>)
    /\ store["dim_user"] = <<>>
    /\ store["fact_enrollment"] # <<>>

-----------------------------------------------------------------------------
(* C10                                                                     *)

RECURSIVE Normalize(_)
\* The collections lines 37-88 build from a sequence of lines, none blank.
Normalize(ids) ==
    IF ids = <<>>
    THEN [users |-> <<>>, courses |-> <<>>, times |-> <<>>, facts |-> <<>>]
    ELSE LET prev == Normalize(SubSeq(ids, 1, Len(ids) - 1))
             line == Strip(Catalogue[ids[Len(ids)]])
             f == Split(line)
         IN  [users |-> PutIfAbsent(prev.users, int(DictOf(f[3])["user_id"]),
                                    UserRow(DictOf(f[3]))),
              courses |-> PutIfAbsent(prev.courses, DictOf(f[4])["course_id"],
                                      CourseRow(DictOf(f[4]))),
              times |-> PutIfAbsent(prev.times, isoformat(strptime(f[1]), "T"),
                                    TimeRow(strptime(f[1]))),
              facts |-> FactAppend(prev.facts, FactRow(line))]

\* C10: a step of the loop on an empty or whitespace-only line changes none
\* of dim_users, dim_courses, dim_times, fact_enrollments, raises nothing and
\* moves to the next line; so between lines the collections are those built
\* from the non-blank lines read so far alone.
C10_BlankLineFrame ==
    /\ [][(pc = "lt_loop" /\ lineno <= Len(log) /\ WhitespaceOnly(Raw(lineno)))
            => /\ UNCHANGED <<dims, files, error>>
               /\ pc' = "lt_loop"
               /\ lineno' = lineno + 1]_vars
    /\ []((pc = "lt_loop" /\ error = "") =>
            LET nb == NonBlank(lineno - 1)
                n == Normalize([i \in 1..Len(nb) |-> log[nb[i]]])
            IN  dims = <<n.users, n.courses, n.times, n.facts>>)

\* A whitespace-only line was skipped after a non-blank line, the log holds
\* two non-blank lines and the pass reached the end of the log.
C10_Witness ==
    /\ pc = "lt_write"
    /\ \E a \in 1..Len(log), b \in 1..Len(log) :
         /\ a < b
         /\ ~WhitespaceOnly(Raw(a))
         /\ Raw(b).fields = <<>> /\ Raw(b).pad # ""
    /\ Len(fact_enrollments) = 2

====
